---- MODULE Spec2Model ----
(***************************************************************************)
(* Model of cl/citations/models.py: the citation convenience classes       *)
(* (Citation, FullCitation, ShortformCitation, SupraCitation, IdCitation), *)
(* the regular expression each builds to find itself in a document         *)
(* (as_regex), the replacement template it builds to mark itself up        *)
(* (as_html), its two notions of equality (__eq__, fuzzy_eq) and its       *)
(* conversion to a persisted citation (to_model).                          *)
(*                                                                         *)
(* Python strings are TLA+ strings; they are built by concatenation in the *)
(* same order as the format strings of the source build them, and they are *)
(* read back character by character by the operators that model what the   *)
(* re module does with them (capture groups, literal text, group           *)
(* references of a replacement template).                                  *)
(***************************************************************************)
EXTENDS Integers, Sequences, FiniteSets, TLC

VARIABLES c, other, regex, html, ret

vars == <<c, other, regex, html, ret>>

(***************************************************************************)
(* Python values.  Every value has the same shape so that two values of    *)
(* different types compare unequal instead of being incomparable.          *)
(***************************************************************************)
None == [t |-> "None", s |-> "", n |-> 0, l |-> <<>>]

PyStr(x) == [t |-> "str", s |-> x, n |-> 0, l |-> <<>>]

PyInt(k) == [t |-> "int", s |-> "", n |-> k, l |-> <<>>]

PyBool(b) == [t |-> "bool", s |-> "", n |-> IF b THEN 1 ELSE 0, l |-> <<>>]

PyList(xs) == [t |-> "list", s |-> "", n |-> 0, l |-> xs]

\* Python truthiness, as used by "if self.match_url:", "if self.volume:".
Truthy(v) ==
    CASE v.t = "None" -> FALSE
      [] v.t = "str" -> v.s /= ""
      [] v.t = "int" -> v.n /= 0
      [] v.t = "bool" -> v.n /= 0
      [] v.t = "list" -> v.l /= <<>>

(***************************************************************************)
(* Strings.                                                                *)
(***************************************************************************)
Ch(s, i) == SubSeq(s, i, i)

Min(S) == CHOOSE x \in S : \A y \in S : x <= y

\* The first position >= from at which pat occurs in s, 0 when there is none.
Find(s, pat, from) ==
    LET hits == {i \in from..(Len(s) - Len(pat) + 1) :
                     SubSeq(s, i, i + Len(pat) - 1) = pat}
    IN  IF hits = {} THEN 0 ELSE Min(hits)

RECURSIVE NatToStr(_)
NatToStr(k) ==
    IF k < 10 THEN Ch("0123456789", k + 1)
    ELSE NatToStr(k \div 10) \o Ch("0123456789", (k % 10) + 1)

\* "%d" % k, str(k)
IntToStr(k) == IF k < 0 THEN "-" \o NatToStr(0 - k) ELSE NatToStr(k)

\* str(v), "%s" % v
str(v) ==
    CASE v.t = "None" -> "None"
      [] v.t = "str" -> v.s
      [] v.t = "int" -> IntToStr(v.n)
      [] v.t = "bool" -> IF v.n = 1 THEN "True" ELSE "False"

AlnumStr == "abcdefghijklmnopqrstuvwxyzABCDEFGHIJKLMNOPQRSTUVWXYZ0123456789"

Alnum == {Ch(AlnumStr, i) : i \in 1..Len(AlnumStr)}

\* re.escape: every character that is not an ASCII letter or digit gets a
\* backslash before it.
RECURSIVE re_escape(_)
re_escape(s) ==
    IF s = "" THEN ""
    ELSE (IF Head(s) \in Alnum THEN Head(s) ELSE "\\" \o Head(s))
             \o re_escape(Tail(s))

(***************************************************************************)
(* Construction.  An object is its class name and its __dict__; kw is the  *)
(* record of the keyword arguments of Citation.__init__.                   *)
(***************************************************************************)
Defaults ==
    [canonical_reporter |-> None, lookup_index |-> None, extra |-> None,
     defendant |-> None, plaintiff |-> None, court |-> None, year |-> None,
     match_url |-> None, match_id |-> None, reporter_found |-> None,
     reporter_index |-> None]

\* equality_attributes with year among them.
equality_attributes_year ==
    <<"reporter", "volume", "page", "canonical_reporter", "lookup_index",
      "year">>

equality_attributes ==
    <<"reporter", "volume", "page", "canonical_reporter", "lookup_index">>

Citation_init(reporter, page, volume, kw) ==
    [reporter |-> reporter,
     volume |-> volume,
     page |-> page,
     canonical_reporter |-> kw.canonical_reporter,
     lookup_index |-> kw.lookup_index,
     extra |-> kw.extra,
     defendant |-> kw.defendant,
     plaintiff |-> kw.plaintiff,
     court |-> kw.court,
     year |-> kw.year,
     reporter_found |-> kw.reporter_found,
     reporter_index |-> kw.reporter_index,
     match_url |-> kw.match_url,
     match_id |-> kw.match_id,
     equality_attributes |-> PyList(equality_attributes)]

FullCitation_init(reporter, page, volume, kw) ==
    [cls |-> "FullCitation", dict |-> Citation_init(reporter, page, volume, kw)]

ShortformCitation_init(reporter, page, volume, antecedent_guess, kw) ==
    [cls |-> "ShortformCitation",
     dict |-> Citation_init(reporter, page, volume, kw)
                  @@ [antecedent_guess |-> antecedent_guess]]

SupraCitation_init(antecedent_guess, page, volume, kw) ==
    [cls |-> "SupraCitation",
     dict |-> Citation_init(None, page, volume, kw)
                  @@ [antecedent_guess |-> antecedent_guess]]

\* IdCitation.__init__ handing its id_token on as the match_url.
IdCitation_init_url(id_token, after_tokens, should_linkify) ==
    [cls |-> "IdCitation",
     dict |-> Citation_init(None, None, None,
                            [Defaults EXCEPT !.match_url = id_token])
                  @@ [id_token |-> id_token,
                      after_tokens |-> after_tokens,
                      should_linkify |-> should_linkify]]

IdCitation_init(id_token, after_tokens, should_linkify) ==
    [cls |-> "IdCitation",
     dict |-> Citation_init(None, None, None, Defaults)
                  @@ [id_token |-> id_token,
                      after_tokens |-> after_tokens,
                      should_linkify |-> should_linkify]]

\* getattr(self, attr, None)
getattr(self, attr) ==
    IF attr \in DOMAIN self.dict THEN self.dict[attr] ELSE None

(***************************************************************************)
(* as_regex                                                                *)
(***************************************************************************)
\* FullCitation.as_regex with the separators of IdCitation.as_regex.
FullCitation_as_regex_html(self) ==
    IntToStr(self.dict.volume.n) \o "((?:\\s|</?\\w+>|,)*)"
        \o re_escape(self.dict.reporter_found.s) \o "((?:\\s|</?\\w+>|,)*)"
        \o re_escape(self.dict.page.s) \o "(\\s?)"

FullCitation_as_regex(self) ==
    IntToStr(self.dict.volume.n) \o "(\\s+)"
        \o re_escape(self.dict.reporter_found.s) \o "(\\s+)"
        \o re_escape(self.dict.page.s) \o "(\\s?)"

ShortformCitation_as_regex(self) ==
    re_escape(self.dict.antecedent_guess.s) \o "(\\s+)"
        \o IntToStr(self.dict.volume.n) \o "(\\s+)"
        \o re_escape(self.dict.reporter_found.s) \o "(,?)(\\s+)at(\\s+)"
        \o re_escape(self.dict.page.s) \o "(\\s?)"

SupraCitation_as_regex(self) ==
    LET s0 == IF Truthy(self.dict.volume)
              THEN re_escape(self.dict.antecedent_guess.s) \o "(\\s+)"
                       \o IntToStr(self.dict.volume.n) \o "(\\s+)supra"
              ELSE re_escape(self.dict.antecedent_guess.s) \o "(\\s+)supra"
        s1 == IF Truthy(self.dict.page)
              THEN s0 \o ",(\\s+)at(\\s+)" \o re_escape(self.dict.page.s)
              ELSE s0
    IN  s1 \o "(\\s?)"

whitespace_regex == "((?:\\s|</?\\w+>|,)*)"

\* sep.join(xs)
RECURSIVE join(_, _)
join(sep, xs) ==
    IF xs = <<>> THEN ""
    ELSE IF Len(xs) = 1 THEN xs[1]
    ELSE xs[1] \o sep \o join(sep, Tail(xs))

IdCitation_as_regex(self) ==
    whitespace_regex
        \o re_escape(self.dict.id_token.s)
        \o whitespace_regex
        \o join(whitespace_regex,
                [i \in 1..Len(self.dict.after_tokens.l) |->
                     re_escape(self.dict.after_tokens.l[i])])
        \o "(\\s?)"

as_regex(self) ==
    CASE self.cls = "FullCitation" -> FullCitation_as_regex(self)
      [] self.cls = "ShortformCitation" -> ShortformCitation_as_regex(self)
      [] self.cls = "SupraCitation" -> SupraCitation_as_regex(self)
      [] self.cls = "IdCitation" -> IdCitation_as_regex(self)

(***************************************************************************)
(* as_html: the replacement template handed to re.sub.                     *)
(***************************************************************************)
\* FullCitation.as_html deciding on match_id instead of match_url.
FullCitation_as_html_by_id(self) ==
    LET inner_html ==
            "<span class=\"volume\">" \o IntToStr(self.dict.volume.n)
                \o "</span>\\g<1>"
                \o "<span class=\"reporter\">" \o str(self.dict.reporter)
                \o "</span>\\g<2>"
                \o "<span class=\"page\">" \o str(self.dict.page)
                \o "</span>\\g<3>"
    IN  IF Truthy(self.dict.match_id)
        THEN "<span class=\"" \o "citation" \o "\""
                 \o " data-id=\"" \o str(self.dict.match_id) \o "\"" \o ">"
                 \o "<a href=\"" \o str(self.dict.match_url) \o "\">"
                 \o inner_html \o "</a>"
                 \o "</span>"
        ELSE "<span class=\"" \o "citation no-link" \o "\"" \o "" \o ">"
                 \o inner_html
                 \o "</span>"

FullCitation_as_html(self) ==
    LET inner_html ==
            "<span class=\"volume\">" \o IntToStr(self.dict.volume.n)
                \o "</span>\\g<1>"
                \o "<span class=\"reporter\">" \o str(self.dict.reporter)
                \o "</span>\\g<2>"
                \o "<span class=\"page\">" \o str(self.dict.page)
                \o "</span>\\g<3>"
    IN  IF Truthy(self.dict.match_url)
        THEN "<span class=\"" \o "citation" \o "\""
                 \o " data-id=\"" \o str(self.dict.match_id) \o "\"" \o ">"
                 \o "<a href=\"" \o str(self.dict.match_url) \o "\">"
                 \o inner_html \o "</a>"
                 \o "</span>"
        ELSE "<span class=\"" \o "citation no-link" \o "\"" \o "" \o ">"
                 \o inner_html
                 \o "</span>"

ShortformCitation_as_html(self) ==
    LET inner_html ==
            "<span class=\"volume\">" \o IntToStr(self.dict.volume.n)
                \o "</span>\\g<2>"
                \o "<span class=\"reporter\">" \o str(self.dict.reporter)
                \o "</span>\\g<3>\\g<4>at\\g<5>"
                \o "<span class=\"page\">" \o str(self.dict.page)
                \o "</span>\\g<6>"
        guess == "<span class=\"antecedent_guess\">"
                     \o str(self.dict.antecedent_guess) \o "</span>\\g<1>"
    IN  IF Truthy(self.dict.match_url)
        THEN "<span class=\"" \o "citation" \o "\""
                 \o " data-id=\"" \o str(self.dict.match_id) \o "\"" \o ">"
                 \o guess
                 \o "<a href=\"" \o str(self.dict.match_url) \o "\">"
                 \o inner_html \o "</a>"
                 \o "</span>"
        ELSE "<span class=\"" \o "citation no-link" \o "\"" \o "" \o ">"
                 \o guess
                 \o inner_html
                 \o "</span>"

SupraCitation_as_html(self) ==
    LET h0 == "<span class=\"antecedent_guess\">"
                  \o str(self.dict.antecedent_guess) \o "</span>"
        inner_html ==
            IF Truthy(self.dict.volume)
            THEN h0 \o "\\g<1><span class=\"volume\">"
                     \o IntToStr(self.dict.volume.n) \o "</span>\\g<2>supra"
                     \o (IF Truthy(self.dict.page)
                         THEN ",\\g<3>at\\g<4><span class=\"page\">"
                                  \o str(self.dict.page) \o "</span>\\g<5>"
                         ELSE "\\g<3>")
            ELSE h0 \o "\\g<1>supra"
                     \o (IF Truthy(self.dict.page)
                         THEN ",\\g<2>at\\g<3><span class=\"page\">"
                                  \o str(self.dict.page) \o "</span>\\g<4>"
                         ELSE "\\g<2>")
    IN  IF Truthy(self.dict.match_url)
        THEN "<span class=\"" \o "citation" \o "\""
                 \o " data-id=\"" \o str(self.dict.match_id) \o "\"" \o ">"
                 \o "<a href=\"" \o str(self.dict.match_url) \o "\">"
                 \o inner_html \o "</a>"
                 \o "</span>"
        ELSE "<span class=\"" \o "citation no-link" \o "\"" \o "" \o ">"
                 \o inner_html
                 \o "</span>"

\* "".join(["\\g<%s>%s" % (str(i + 2), t) for i, t in enumerate(tokens)]),
\* i being the 0-based index of the first token of ts.
RECURSIVE after_token_refs(_, _)
after_token_refs(ts, i) ==
    IF ts = <<>> THEN ""
    ELSE "\\g<" \o IntToStr(i + 2) \o ">" \o ts[1]
             \o after_token_refs(Tail(ts), i + 1)

generate_after_token_html(self) ==
    after_token_refs(self.dict.after_tokens.l, 0)
        \o "\\g<" \o IntToStr(Len(self.dict.after_tokens.l) + 2) \o ">"

\* IdCitation.as_html with the leading group put before the container.
IdCitation_as_html_lead_outside(self) ==
    LET after_token_html == generate_after_token_html(self)
        id_span == "<span class=\"id_token\">" \o str(self.dict.id_token)
                       \o "</span>"
    IN  IF Truthy(self.dict.match_url)
        THEN "\\g<1>"
                 \o "<span class=\"" \o "citation" \o "\""
                 \o " data-id=\"" \o str(self.dict.match_id) \o "\"" \o ">"
                 \o (IF Truthy(self.dict.should_linkify)
                     THEN "<a href=\"" \o str(self.dict.match_url) \o "\">"
                              \o id_span \o after_token_html \o "</a>"
                     ELSE "<a href=\"" \o str(self.dict.match_url) \o "\">"
                              \o id_span \o "</a>" \o after_token_html)
                 \o "</span>"
        ELSE "\\g<1>"
                 \o "<span class=\"" \o "citation no-link" \o "\"" \o "" \o ">"
                 \o id_span \o after_token_html
                 \o "</span>"

IdCitation_as_html(self) ==
    LET after_token_html == generate_after_token_html(self)
        id_span == "<span class=\"id_token\">" \o str(self.dict.id_token)
                       \o "</span>"
    IN  IF Truthy(self.dict.match_url)
        THEN "<span class=\"" \o "citation" \o "\""
                 \o " data-id=\"" \o str(self.dict.match_id) \o "\"" \o ">"
                 \o "\\g<1>"
                 \o (IF Truthy(self.dict.should_linkify)
                     THEN "<a href=\"" \o str(self.dict.match_url) \o "\">"
                              \o id_span \o after_token_html \o "</a>"
                     ELSE "<a href=\"" \o str(self.dict.match_url) \o "\">"
                              \o id_span \o "</a>" \o after_token_html)
                 \o "</span>"
        ELSE "<span class=\"" \o "citation no-link" \o "\"" \o "" \o ">"
                 \o "\\g<1>"
                 \o id_span \o after_token_html
                 \o "</span>"

as_html(self) ==
    CASE self.cls = "FullCitation" -> FullCitation_as_html(self)
      [] self.cls = "ShortformCitation" -> ShortformCitation_as_html(self)
      [] self.cls = "SupraCitation" -> SupraCitation_as_html(self)
      [] self.cls = "IdCitation" -> IdCitation_as_html(self)

(***************************************************************************)
(* Equality and the fuzzy hash.                                            *)
(***************************************************************************)
\* __eq__ comparing the equality attributes only.
Citation_eq_fuzzy(self, o) ==
    \A k \in {"reporter", "volume", "page", "canonical_reporter",
              "lookup_index"} :
        (IF k \in DOMAIN self.dict THEN self.dict[k] ELSE None)
            = (IF k \in DOMAIN o.dict THEN o.dict[k] ELSE None)

\* __eq__: self.__dict__ == other.__dict__
Citation_eq(self, o) == self.dict = o.dict

\* __ne__
Citation_ne(self, o) == ~Citation_eq(self, o)

\* The string fuzzy_hash builds: str() of each equality attribute, in order.
RECURSIVE fuzzy_key(_, _)
fuzzy_key(self, attrs) ==
    IF attrs = <<>> THEN ""
    ELSE str(getattr(self, attrs[1])) \o fuzzy_key(self, Tail(attrs))

AsciiFrom32 ==
    " !\"#$%&'()*+,-./0123456789:;<=>?@ABCDEFGHIJKLMNOPQRSTUVWXYZ[\\]^_"

AsciiFrom97 == "abcdefghijklmnopqrstuvwxyz{|}~"

\* ord(ch) for every printable ASCII character but the backquote.
OrdTable ==
    [ch \in {Ch(AsciiFrom32, i) : i \in 1..Len(AsciiFrom32)}
               \cup {Ch(AsciiFrom97, i) : i \in 1..Len(AsciiFrom97)} |->
         IF Find(AsciiFrom32, ch, 1) > 0 THEN 31 + Find(AsciiFrom32, ch, 1)
         ELSE 96 + Find(AsciiFrom97, ch, 1)]

ord(ch) == OrdTable[ch]

HashWidth == 16777216

\* hash(s) of a string: a deterministic function of its characters into a
\* fixed-width integer (a polynomial stands in for CPython's string hash).
RECURSIVE hash_from(_, _)
hash_from(x, s) ==
    IF s = "" THEN x
    ELSE hash_from((31 * x + ord(Head(s))) % HashWidth, Tail(s))

hash(s) == hash_from(Len(s), s)

fuzzy_hash(self) == hash(fuzzy_key(self, self.dict.equality_attributes.l))

fuzzy_eq(self, o) == fuzzy_hash(self) = fuzzy_hash(o)

(***************************************************************************)
(* to_model                                                                *)
(***************************************************************************)
Return(v) == [exc |-> "", val |-> v]

Raise(e) == [exc |-> e, val |-> None]

\* The reporter taxonomy (reporters_db.REPORTERS): canonical reporter ->
\* list of entries, each with a cite_type.
REPORTERS ==
    ("U.S." :> <<[cite_type |-> "federal"]>>)
        @@ ("F." :> <<[cite_type |-> "federal"], [cite_type |-> "unheard_of"]>>)

\* cl.citations.utils.map_reporter_db_cite_type
CiteTypes == ("federal" :> 1) @@ ("state" :> 2)

map_reporter_db_cite_type(cite_type) ==
    IF cite_type \in DOMAIN CiteTypes
    THEN Return(PyInt(CiteTypes[cite_type]))
    ELSE Raise("UnsupportedCitationTypeError")

\* cl.search.models.Citation._meta.get_all_field_names()
ModelFieldNames == {"id", "cluster", "volume", "reporter", "page", "type"}

ModelCitation(kwargs) == [k \in DOMAIN kwargs |-> kwargs[k]]

\* to_model reading the taxonomy with REPORTERS.get(...): an unknown
\* reporter gives a model citation without a type.
to_model_get(self) ==
    LET m == ModelCitation(
                 [key \in (DOMAIN self.dict) \cap ModelFieldNames |->
                      self.dict[key]])
        k == self.dict.canonical_reporter
        i == self.dict.lookup_index
    IN  IF ~(k.t = "str" /\ k.s \in DOMAIN REPORTERS)
        THEN Return(m @@ [type |-> None])
        ELSE LET canon == REPORTERS[k.s]
             IN  IF i.t /= "int" THEN Raise("TypeError")
                 ELSE IF ~(0 - Len(canon) <= i.n /\ i.n < Len(canon))
                 THEN Raise("IndexError")
                 ELSE LET e == canon[IF i.n < 0 THEN Len(canon) + i.n + 1
                                     ELSE i.n + 1]
                          ty == map_reporter_db_cite_type(e.cite_type)
                      IN  IF ty.exc /= "" THEN ty
                          ELSE Return(m @@ [type |-> ty.val])

to_model(self) ==
    LET m == ModelCitation(
                 [key \in (DOMAIN self.dict) \cap ModelFieldNames |->
                      self.dict[key]])
        k == self.dict.canonical_reporter
        i == self.dict.lookup_index
    IN  IF ~(k.t = "str" /\ k.s \in DOMAIN REPORTERS)
        THEN Raise("KeyError")
        ELSE LET canon == REPORTERS[k.s]
             IN  IF i.t /= "int" THEN Raise("TypeError")
                 ELSE IF ~(0 - Len(canon) <= i.n /\ i.n < Len(canon))
                 THEN Raise("IndexError")
                 ELSE LET e == canon[IF i.n < 0 THEN Len(canon) + i.n + 1
                                     ELSE i.n + 1]
                          ty == map_reporter_db_cite_type(e.cite_type)
                      IN  IF ty.exc /= "" THEN ty
                          ELSE Return(m @@ [type |-> ty.val])

(***************************************************************************)
(* What the re module makes of a pattern: its capture groups and the       *)
(* literal text between them.                                              *)
(***************************************************************************)
\* The number of consecutive backslashes that end right before position i.
BackslashesBefore(p, i) ==
    LET others == {j \in 1..(i - 1) : Ch(p, j) /= "\\"}
    IN  IF others = {} THEN i - 1
        ELSE (i - 1) - (CHOOSE j \in others : \A k \in others : k <= j)

\* Position i holds a character of the pattern language, not an escaped one.
Unescaped(p, i) == BackslashesBefore(p, i) % 2 = 0

ParenOpens(p) == {i \in 1..Len(p) : Ch(p, i) = "(" /\ Unescaped(p, i)}

ParenCloses(p) == {i \in 1..Len(p) : Ch(p, i) = ")" /\ Unescaped(p, i)}

\* "(" opens a capture group unless "?" follows it ("(?:" groups only).
CaptureOpens(p) ==
    {i \in ParenOpens(p) : i = Len(p) \/ Ch(p, i + 1) /= "?"}

\* re.compile(p).groups
NumGroups(p) == Cardinality(CaptureOpens(p))

\* The elements of a set of numbers in increasing order.
RECURSIVE Sorted(_)
Sorted(S) ==
    IF S = {} THEN <<>>
    ELSE LET m == Min(S) IN <<m>> \o Sorted(S \ {m})

\* The parenthesis that closes the one opened at position i, opens and
\* closes being the positions of the pattern's parentheses.
MatchingClose(opens, closes, i) ==
    Min({j \in closes :
             /\ j > i
             /\ Cardinality({k \in opens : i <= k /\ k <= j})
                    = Cardinality({k \in closes : i <= k /\ k <= j})})

\* <<open, close>> of every group that is not inside another group, from
\* position from on, in the order of the pattern.
RECURSIVE TopGroupsFrom(_, _, _)
TopGroupsFrom(opens, closes, from) ==
    LET rest == {i \in opens : i >= from}
    IN  IF rest = {} THEN <<>>
        ELSE LET i == Min(rest)
                 j == MatchingClose(opens, closes, i)
             IN  <<(<<i, j>>)>> \o TopGroupsFrom(opens, closes, j + 1)

TopGroups(p) == TopGroupsFrom(ParenOpens(p), ParenCloses(p), 1)

\* The text an escaped literal matches: the escaping backslashes dropped.
RECURSIVE Unescape(_)
Unescape(s) ==
    IF s = "" THEN ""
    ELSE IF Head(s) = "\\" /\ Len(s) >= 2
    THEN Ch(s, 2) \o Unescape(SubSeq(s, 3, Len(s)))
    ELSE Head(s) \o Unescape(Tail(s))

\* The bodies of the top-level groups, in order.
GroupBodies(p) ==
    LET g == TopGroups(p)
    IN  [k \in 1..Len(g) |-> SubSeq(p, g[k][1] + 1, g[k][2] - 1)]

\* The literal texts around the top-level groups: the k-th stands before
\* the k-th group, the last after the last group.
RegexLiterals(p) ==
    LET g == TopGroups(p)
        n == Len(g)
    IN  [k \in 1..(n + 1) |->
             Unescape(SubSeq(p,
                             IF k = 1 THEN 1 ELSE g[k - 1][2] + 1,
                             IF k = n + 1 THEN Len(p) ELSE g[k][1] - 1))]

(***************************************************************************)
(* What re.sub makes of a replacement template: its group references       *)
(* \g<N> and the literal text between them.                                *)
(***************************************************************************)
RefStarts(h) == {i \in 1..(Len(h) - 2) : SubSeq(h, i, i + 2) = "\\g<"}

RECURSIVE StrToNat(_)
StrToNat(s) ==
    IF s = "" THEN 0
    ELSE 10 * StrToNat(SubSeq(s, 1, Len(s) - 1))
             + (Find("0123456789", Ch(s, Len(s)), 1) - 1)

\* The position of the ">" that ends the reference starting at position i.
RefEnd(h, i) == Find(h, ">", i)

\* The group numbers the template refers to, in the order of the text.
TemplateRefs(h) ==
    LET starts == Sorted(RefStarts(h))
    IN  [k \in 1..Len(starts) |->
             StrToNat(SubSeq(h, starts[k] + 3, RefEnd(h, starts[k]) - 1))]

\* The literal texts around the references: the k-th stands before the
\* k-th reference, the last after the last reference.
TemplateLiterals(h) ==
    LET starts == Sorted(RefStarts(h))
        n == Len(starts)
    IN  [k \in 1..(n + 1) |->
             SubSeq(h,
                    IF k = 1 THEN 1 ELSE RefEnd(h, starts[k - 1]) + 1,
                    IF k = n + 1 THEN Len(h) ELSE starts[k] - 1)]

\* The text left when every tag <...> is taken out of s.
RECURSIVE StripTags(_)
StripTags(s) ==
    LET i == Find(s, "<", 1)
    IN  IF i = 0 THEN s
        ELSE SubSeq(s, 1, i - 1)
                 \o StripTags(SubSeq(s, Find(s, ">", i) + 1, Len(s)))

\* The tags of s, each without its angle brackets, in the order of the text.
RECURSIVE Tags(_)
Tags(s) ==
    LET i == Find(s, "<", 1)
        j == Find(s, ">", i)
    IN  IF i = 0 THEN <<>>
        ELSE <<SubSeq(s, i + 1, j - 1)>> \o Tags(SubSeq(s, j + 1, Len(s)))

\* The template without its group references.
Markup(h) == join("", TemplateLiterals(h))

(***************************************************************************)
(* The citations the model constructs.                                     *)
(***************************************************************************)
\* The longest list of after tokens an IdCitation is constructed with.
MaxAfterTokens == 2

Volumes == {1, 12}

Pages == {"23", "2(a)"}

\* <<reporter, reporter_found>>: the normalized reporter and its surface form.
Reporters == {<<"U.S.", "U.S.">>, <<"Cranch", "Cr.">>}

Guesses == {"Adarand", "Doe (I)"}

IdTokens == {"Id.", "ibid."}

AfterTokens == {"at", "2(a)"}

\* <<canonical_reporter, lookup_index>>
Disambiguations ==
    {<<None, None>>, <<PyStr("U.S."), PyInt(0)>>, <<PyStr("U.S."), PyInt(1)>>,
     <<PyStr("F."), PyInt(1)>>, <<PyStr("F."), None>>, <<PyStr("Zzz"), PyInt(0)>>}

\* <<match_url, match_id>>
Matches ==
    {<<None, None>>, <<PyStr("/opinion/7/"), PyInt(7)>>,
     <<PyStr("/opinion/7/"), None>>, <<None, PyInt(7)>>}

\* <<extra, defendant, plaintiff, court, year, reporter_index>>
Supplements ==
    {<<None, None, None, None, None, None>>,
     <<PyStr("240"), PyStr("Pena"), PyStr("Adarand"), PyStr("scotus"),
       PyInt(1995), PyInt(4)>>}

Kwargs(dis, sup, mat, found) ==
    [canonical_reporter |-> dis[1], lookup_index |-> dis[2],
     extra |-> sup[1], defendant |-> sup[2], plaintiff |-> sup[3],
     court |-> sup[4], year |-> sup[5], reporter_index |-> sup[6],
     match_url |-> mat[1], match_id |-> mat[2], reporter_found |-> found]

TokenLists ==
    UNION {[1..n -> AfterTokens] : n \in 0..MaxAfterTokens}

FullCitations ==
    {FullCitation_init(PyStr(r[1]), PyStr(p), PyInt(v),
                       Kwargs(dis, sup, mat, PyStr(r[2]))) :
         r \in Reporters, p \in Pages, v \in Volumes,
         dis \in Disambiguations, sup \in Supplements, mat \in Matches}

ShortformCitations ==
    {ShortformCitation_init(PyStr(r[1]), PyStr(p), PyInt(v), PyStr(g),
                            Kwargs(<<None, None>>, sup, mat, PyStr(r[2]))) :
         r \in Reporters, p \in Pages, v \in Volumes, g \in Guesses,
         sup \in Supplements, mat \in Matches}

SupraCitations ==
    {SupraCitation_init(PyStr(g), p, v,
                        Kwargs(<<None, None>>, sup, mat, None)) :
         g \in Guesses, p \in {None} \cup {PyStr(x) : x \in Pages},
         v \in {None, PyInt(0)} \cup {PyInt(x) : x \in Volumes},
         sup \in Supplements, mat \in Matches}

IdCitations ==
    {IdCitation_init(PyStr(t), PyList(ts), PyBool(b)) :
         t \in IdTokens, ts \in TokenLists, b \in BOOLEAN}

Citations ==
    FullCitations \cup ShortformCitations \cup SupraCitations \cup IdCitations

(***************************************************************************)
(* The state machine: one citation object c and the calls made on it.      *)
(* regex and html hold what the last as_regex and as_html returned, ret    *)
(* what the last other call returned or raised; each with the object as it *)
(* was when the call was made.                                             *)
(***************************************************************************)
NoObject == [cls |-> "", dict |-> [equality_attributes |-> PyList(<<>>)]]

Unset == [call |-> "", self |-> NoObject, r |-> Raise("unset")]

Init ==
    /\ c \in Citations
    /\ other = NoObject
    /\ regex = Unset
    /\ html = Unset
    /\ ret = Unset

Call_as_regex ==
    /\ regex' = [call |-> "as_regex", self |-> c, r |-> Return(as_regex(c))]
    /\ UNCHANGED <<c, other, html, ret>>

Call_as_html ==
    /\ html' = [call |-> "as_html", self |-> c, r |-> Return(as_html(c))]
    /\ UNCHANGED <<c, other, regex, ret>>

Call_to_model ==
    /\ ret' = [call |-> "to_model", self |-> c, r |-> to_model(c)]
    /\ UNCHANGED <<c, other, regex, html>>

\* The document resolver records the document it found on the citation.
Resolve ==
    /\ c.dict.match_url /= PyStr("/opinion/7/") \/ c.dict.match_id /= PyInt(7)
    /\ c' = [c EXCEPT !.dict.match_url = PyStr("/opinion/7/"),
                      !.dict.match_id = PyInt(7)]
    /\ UNCHANGED <<other, regex, html, ret>>

Next == Call_as_regex \/ Call_as_html \/ Call_to_model \/ Resolve

Spec == Init /\ [][Next]_vars

(***************************************************************************)
(* What a capture group of these patterns accepts.  The bodies are the     *)
(* four the source writes: \s+, \s?, ,? and (?:\s|</?\w+>|,)*.             *)
(***************************************************************************)
Whitespace == {" ", "\t", "\n", "\r", "\f"}

WordChars == Alnum \cup {"_"}

AllIn(s, S) == \A i \in 1..Len(s) : Ch(s, i) \in S

\* s is one HTML tag as </?\w+> matches it.
IsTag(s) ==
    /\ Len(s) >= 3
    /\ Head(s) = "<"
    /\ Ch(s, Len(s)) = ">"
    /\ LET name == IF Ch(s, 2) = "/" THEN SubSeq(s, 3, Len(s) - 1)
                   ELSE SubSeq(s, 2, Len(s) - 1)
       IN  name /= "" /\ AllIn(name, WordChars)

\* s is a run of whitespace characters, commas and tags.
RECURSIVE IsWhitespaceHtmlComma(_)
IsWhitespaceHtmlComma(s) ==
    IF s = "" THEN TRUE
    ELSE IF Head(s) \in Whitespace \cup {","}
    THEN IsWhitespaceHtmlComma(Tail(s))
    ELSE LET j == Find(s, ">", 1)
         IN  /\ j > 0
             /\ IsTag(SubSeq(s, 1, j))
             /\ IsWhitespaceHtmlComma(SubSeq(s, j + 1, Len(s)))

\* The group with this body matches the whole of text.
GroupAccepts(body, text) ==
    CASE body = "\\s+" -> text /= "" /\ AllIn(text, Whitespace)
      [] body = "\\s?" -> Len(text) <= 1 /\ AllIn(text, Whitespace)
      [] body = ",?" -> text \in {"", ","}
      [] body = "(?:\\s|</?\\w+>|,)*" -> IsWhitespaceHtmlComma(text)
      [] OTHER -> FALSE

\* The pattern matches, group k taking seps[k], the text in which seps[k]
\* stands where group k is between the pattern's literals: every group
\* accepts the text in its place.
MatchesWith(p, seps) ==
    LET bodies == GroupBodies(p)
    IN  /\ Len(seps) = NumGroups(p)
        /\ Len(bodies) = NumGroups(p)
        /\ \A k \in 1..Len(seps) : GroupAccepts(bodies[k], seps[k])

(***************************************************************************)
(* Properties of one citation (specification Spec).                        *)
(***************************************************************************)
RegexCalled == regex.call = "as_regex"

HtmlCalled == html.call = "as_html"

\* <<1, 2, ..., n>>
UpTo(n) == [k \in 1..n |-> k]

\* The template's literal texts with the tags taken out.
VisibleLiterals(h) ==
    [k \in DOMAIN TemplateLiterals(h) |-> StripTags(TemplateLiterals(h)[k])]

\* The text of the first element with the given opening tag.
ElementText(h, open) ==
    LET i == Find(h, open, 1)
        from == i + Len(open)
    IN  SubSeq(h, from, Find(h, "</span>", from) - 1)

Present(v) == v /= None

\* C3: for an IdCitation with N after tokens (N >= 0), the pattern of
\* as_regex has exactly N + 2 capture groups and the template of as_html
\* refers to exactly the groups 1..N+2, each once and in order.
C3_IdGroupCount ==
    (RegexCalled /\ HtmlCalled /\ c.cls = "IdCitation") =>
        LET N == Len(c.dict.after_tokens.l)
        IN  /\ NumGroups(regex.r.val) = N + 2
            /\ TemplateRefs(html.r.val) = UpTo(N + 2)

\* The pattern and the template of an IdCitation agree whenever it has at
\* least one after token.
C3_HoldsWithAfterTokens ==
    (RegexCalled /\ HtmlCalled /\ c.cls = "IdCitation"
         /\ c.dict.after_tokens.l /= <<>>) =>
        LET N == Len(c.dict.after_tokens.l)
        IN  /\ NumGroups(regex.r.val) = N + 2
            /\ TemplateRefs(html.r.val) = UpTo(N + 2)

\* With no after tokens the pattern has three groups and the template
\* refers to two of them.
C3_EmptyAfterTokens ==
    /\ RegexCalled /\ HtmlCalled /\ c.cls = "IdCitation"
    /\ c.dict.after_tokens.l = <<>>
    /\ NumGroups(regex.r.val) = 3
    /\ TemplateRefs(html.r.val) = <<1, 2>>

\* C4: as_html decides on match_url alone.  Without a match_url the outer
\* container has class "citation no-link", there is no data-id and no
\* anchor; with one the outer container has class "citation", its data-id
\* is match_id, and there is exactly one anchor, whose href is match_url.
C4_LinkDecidedByMatchUrl ==
    HtmlCalled =>
        LET o == html.self
            tags == Tags(Markup(html.r.val))
            anchors == {i \in 1..Len(tags) : SubSeq(tags[i], 1, 2) = "a "}
        IN  IF ~Present(o.dict.match_url)
            THEN /\ tags[1] = "span class=\"citation no-link\""
                 /\ \A i \in 1..Len(tags) : Find(tags[i], "data-id", 1) = 0
                 /\ anchors = {}
            ELSE /\ tags[1] = "span class=\"citation\" data-id=\""
                                  \o str(o.dict.match_id) \o "\""
                 /\ \A i \in 2..Len(tags) : Find(tags[i], "data-id", 1) = 0
                 /\ Cardinality(anchors) = 1
                 /\ \A i \in anchors :
                        tags[i] = "a href=\"" \o str(o.dict.match_url) \o "\""

C4_Witness ==
    /\ HtmlCalled
    /\ html.self.cls = "IdCitation"
    /\ Present(html.self.dict.match_url)
    /\ Find(html.r.val, "<a href=\"/opinion/7/\">", 1) > 0

\* C5: for a FullCitation or ShortformCitation the reporter text in the
\* markup is reporter_found, the text as_regex matched, so that the
\* template without its tags spells the matched text.
C5_ReporterAsFound ==
    (RegexCalled /\ HtmlCalled
         /\ c.cls \in {"FullCitation", "ShortformCitation"}) =>
        /\ ElementText(html.r.val, "<span class=\"reporter\">")
               = c.dict.reporter_found.s
        /\ VisibleLiterals(html.r.val) = RegexLiterals(regex.r.val)

\* The markup spells the normalized reporter where the pattern matched the
\* surface form.
C5_NormalizedReporterEmitted ==
    /\ RegexCalled /\ HtmlCalled /\ c.cls = "FullCitation"
    /\ c.dict.reporter.s = "Cranch" /\ c.dict.reporter_found.s = "Cr."
    /\ ElementText(html.r.val, "<span class=\"reporter\">") = "Cranch"
    /\ RegexLiterals(regex.r.val)[2] = "Cr."

\* C6: for a FullCitation, a ShortformCitation and a SupraCitation (volume
\* and page present or not), the template refers to each capture group of
\* the pattern once, in increasing order, each between the same two literal
\* tokens that surround the group in the pattern.
C6_GroupsInPlace ==
    (RegexCalled /\ HtmlCalled
         /\ c.cls \in {"FullCitation", "ShortformCitation", "SupraCitation"})
        =>
        /\ TemplateRefs(html.r.val) = UpTo(NumGroups(regex.r.val))
        /\ VisibleLiterals(html.r.val) = RegexLiterals(regex.r.val)

\* The same holds of every SupraCitation, and of every FullCitation and
\* ShortformCitation whose reporter is spelled as it was found; the group
\* numbers are right for all of them.
C6_GroupsInPlaceButReporter ==
    (RegexCalled /\ HtmlCalled
         /\ c.cls \in {"FullCitation", "ShortformCitation", "SupraCitation"})
        =>
        /\ TemplateRefs(html.r.val) = UpTo(NumGroups(regex.r.val))
        /\ (c.dict.reporter = c.dict.reporter_found
                => VisibleLiterals(html.r.val) = RegexLiterals(regex.r.val))

\* Separator texts: whitespace, commas, inline HTML tags and mixes of them.
SepTexts == {"", " ", "  ", "\n", ",", ", ", "<i>", " <i>", "</i> ", "<b>,"}

HasTag(t) == Find(t, "<", 1) > 0

C8_LeadingGroupBeforeContainer ==
    (HtmlCalled /\ html.self.cls = "IdCitation") =>
        LET lits == TemplateLiterals(html.r.val)
        IN  /\ TemplateRefs(html.r.val)[1] = 1
            /\ lits[1] = ""
            /\ SubSeq(lits[2], 1, 21) = "<span class=\"citation"

\* C8 as amended: the reference to group 1 stands immediately after the
\* opening tag of the outer "citation" container, inside the container and
\* before the anchor or the id_token span, with match_url present or not.
C8_LeadingGroupInsideContainer ==
    (HtmlCalled /\ html.self.cls = "IdCitation") =>
        LET lits == TemplateLiterals(html.r.val)
            o == html.self
        IN  /\ TemplateRefs(html.r.val)[1] = 1
            /\ lits[1] = (IF Present(o.dict.match_url)
                          THEN "<span class=\"citation\" data-id=\""
                                   \o str(o.dict.match_id) \o "\">"
                          ELSE "<span class=\"citation no-link\">")
            /\ SubSeq(lits[2], 1, 2) \in {"<a", "<s"}
            /\ Tags(Markup(html.r.val))[Len(Tags(Markup(html.r.val)))]
                   = "/span"

C8_Witness ==
    /\ HtmlCalled
    /\ html.self.cls = "IdCitation"
    /\ Present(html.self.dict.match_url)
    /\ html.self.dict.should_linkify = PyBool(TRUE)
    /\ html.self.dict.after_tokens.l = <<"at", "2(a)">>

\* match_url and match_id are both present or both absent.
Paired(o) == Present(o.dict.match_url) <=> Present(o.dict.match_id)

\* C9 as stated: in every reachable state of a citation, whatever the
\* arguments it was constructed with, match_url and match_id are both
\* present or both absent.
C9_AlwaysPaired == Paired(c)

\* C9 as amended: the constructor stores match_url and match_id as given,
\* each on its own and each absent by default, so the two are both present
\* or both absent only when its arguments were.  An IdCitation, whose
\* constructor takes neither, is constructed with both absent.  No method
\* of a citation (as_regex, as_html, to_model) changes either field.
C9_PairedAsConstructed ==
    /\ (c.cls = "IdCitation" =>
            (c.dict.match_url = None /\ c.dict.match_id = None))
    /\ [][(regex' /= regex \/ html' /= html \/ ret' /= ret) => c' = c]_vars

\* A citation constructed with a match_url and no match_id, unchanged by
\* the calls made on it.
C9_Witness ==
    /\ c.cls = "FullCitation"
    /\ Present(c.dict.match_url)
    /\ ~Present(c.dict.match_id)
    /\ RegexCalled /\ regex.self = c
    /\ HtmlCalled /\ html.self = c
    /\ ret.call = "to_model" /\ ret.self = c

\* C10: to_model on a citation whose canonical_reporter is no key of the
\* reporter taxonomy (one never disambiguated included) raises KeyError,
\* returns no model citation and leaves the citation as it was.
C10_UnknownReporterRaises ==
    [][(ret' /= ret /\ ret'.call = "to_model"
            /\ ~(c.dict.canonical_reporter.t = "str"
                     /\ c.dict.canonical_reporter.s \in DOMAIN REPORTERS))
           => (ret'.r = Raise("KeyError") /\ ret'.self = c /\ c' = c)]_vars

C10_Witness ==
    /\ ret.call = "to_model"
    /\ ret.self.dict.canonical_reporter = None
    /\ ret.r.exc = "KeyError"
    /\ c = ret.self

(***************************************************************************)
(* Two citations and their comparison (specification SpecEq).              *)
(***************************************************************************)
EqPages == {"3", "23"}

EqCanonicals == {None, PyStr("None"), PyStr("U.S.")}

\* Keyword arguments that equality_attributes does not name.
EqKwargs ==
    {Defaults,
     [Defaults EXCEPT !.year = PyInt(1995), !.court = PyStr("scotus")],
     [Defaults EXCEPT !.match_url = PyStr("/opinion/7/"),
                      !.match_id = PyInt(7)],
     [Defaults EXCEPT !.reporter_found = PyStr("U. S."),
                      !.reporter_index = PyInt(4),
                      !.extra = PyStr("240"),
                      !.defendant = PyStr("Pena"),
                      !.plaintiff = PyStr("Adarand")]}

\* <<reporter, page, volume, canonical_reporter, lookup_index>>
EqFields ==
    {<<r, p, v, cr, li>> :
         r \in {"U.S.", "F.2d"}, p \in EqPages, v \in Volumes,
         cr \in EqCanonicals, li \in {None, PyInt(0)}}

EqCitations ==
    {FullCitation_init(PyStr(f[1]), PyStr(f[2]), PyInt(f[3]),
                       [kw EXCEPT !.canonical_reporter = f[4],
                                  !.lookup_index = f[5]]) :
         f \in EqFields, kw \in EqKwargs}
        \cup {ShortformCitation_init(PyStr("U.S."), PyStr("3"), PyInt(1),
                                     PyStr(g), Defaults) : g \in Guesses}
        \cup {SupraCitation_init(PyStr("Adarand"), None, None, Defaults),
              IdCitation_init(PyStr("Id."), PyList(<<>>), PyBool(FALSE))}

InitEq ==
    /\ c \in EqCitations
    /\ other \in EqCitations
    /\ regex = Unset
    /\ html = Unset
    /\ ret = Unset

Call_eq ==
    /\ ret' = [call |-> "__eq__", self |-> c,
               r |-> Return(PyBool(Citation_eq(c, other)))]
    /\ UNCHANGED <<c, other, regex, html>>

Call_ne ==
    /\ ret' = [call |-> "__ne__", self |-> c,
               r |-> Return(PyBool(Citation_ne(c, other)))]
    /\ UNCHANGED <<c, other, regex, html>>

Call_fuzzy_eq ==
    /\ ret' = [call |-> "fuzzy_eq", self |-> c,
               r |-> Return(PyBool(fuzzy_eq(c, other)))]
    /\ UNCHANGED <<c, other, regex, html>>

NextEq == Call_eq \/ Call_ne \/ Call_fuzzy_eq

SpecEq == InitEq /\ [][NextEq]_vars

\* The two citations agree on every attribute equality_attributes names.
SameEqualityFields(a, b) ==
    \A k \in {"reporter", "volume", "page", "canonical_reporter",
              "lookup_index"} : getattr(a, k) = getattr(b, k)

\* The two citations have the same attributes with the same values.
SameAttributes(a, b) ==
    /\ DOMAIN a.dict = DOMAIN b.dict
    /\ \A k \in DOMAIN a.dict : a.dict[k] = b.dict[k]

\* C1: two citations that agree on reporter, volume, page,
\* canonical_reporter and lookup_index are fuzzy_eq, and their fuzzy hashes
\* are equal, whatever their other attributes.
C1_FuzzyEqIgnoresTheRest ==
    (ret.call = "fuzzy_eq" /\ SameEqualityFields(c, other)) =>
        /\ ret.r = Return(PyBool(TRUE))
        /\ fuzzy_hash(c) = fuzzy_hash(other)

C1_Witness ==
    /\ ret.call = "fuzzy_eq"
    /\ SameEqualityFields(c, other)
    /\ c.dict.year /= other.dict.year
    /\ c.dict.court /= other.dict.court
    /\ c.cls = "FullCitation" /\ other.cls = "FullCitation"
    /\ ret.r.val = PyBool(TRUE)

KeyOf(o) == fuzzy_key(o, o.dict.equality_attributes.l)

\* C11: two citations that differ in at least one of reporter, volume,
\* page, canonical_reporter and lookup_index never have the same fuzzy key
\* (the string fuzzy_hash builds from these five fields), and fuzzy_eq is
\* false for them.
C11_FuzzyKeySound ==
    (ret.call = "fuzzy_eq" /\ ~SameEqualityFields(c, other)) =>
        /\ KeyOf(c) /= KeyOf(other)
        /\ ret.r = Return(PyBool(FALSE))

\* Volume 1 with page "23" and volume 12 with page "3" build the same key,
\* and fuzzy_eq is true of the two citations.
C11_ConcatenationCollides ==
    /\ ret.call = "fuzzy_eq"
    /\ c.dict.volume = PyInt(1) /\ c.dict.page = PyStr("23")
    /\ other.dict.volume = PyInt(12) /\ other.dict.page = PyStr("3")
    /\ c.dict.reporter = other.dict.reporter
    /\ c.dict.canonical_reporter = other.dict.canonical_reporter
    /\ c.dict.lookup_index = other.dict.lookup_index
    /\ KeyOf(c) = KeyOf(other)
    /\ ret.r = Return(PyBool(TRUE))

\* An absent canonical_reporter and the string "None" build the same key.
C11_AbsentCollidesWithNoneString ==
    /\ ret.call = "fuzzy_eq"
    /\ c.dict.canonical_reporter = None
    /\ other.dict.canonical_reporter = PyStr("None")
    /\ c.dict.reporter = other.dict.reporter
    /\ c.dict.volume = other.dict.volume
    /\ c.dict.page = other.dict.page
    /\ c.dict.lookup_index = other.dict.lookup_index
    /\ KeyOf(c) = KeyOf(other)
    /\ ret.r = Return(PyBool(TRUE))

====
